---- MODULE Spec2Model ----
(***************************************************************************)
(* Post-IPO Catalyst & Flow Tracker (app.py).                              *)
(*                                                                         *)
(* One run of the Streamlit script for a non-empty ticker: the tracker is  *)
(* constructed, fetch_data() resolves the price history and the profile,   *)
(* and the page is rendered top to bottom (profile, metrics, deadlines,    *)
(* then either the fund holders or the index-inclusion predictions).       *)
(*                                                                         *)
(* Dates are day numbers (days since 1970-01-01, proleptic Gregorian);     *)
(* year and month are computed from the day number.  The wall clock is     *)
(* read separately at every datetime.now() of the script and may advance   *)
(* between two reads.  Python's None is the empty tuple <<>> and a present *)
(* value v is <<v>>.  Market capitalization is in millions of USD.         *)
(***************************************************************************)
EXTENDS Integers, Sequences, FiniteSets, TLC

VARIABLES
    clock,            \* the wall-clock date, as datetime.now().date() reads it
    ticks,            \* how many times midnight has passed during the run
    pc,               \* position of the script
    sector_override,  \* value of the selectbox
    provider,         \* the data provider's price-history endpoint
    calls,            \* number of stock.history() calls made
    current_year,     \* tracker.current_year
    hist_max,         \* tracker.hist_max: rows [date, Close], ascending
    ipo_date,         \* tracker.ipo_date: None or a date
    stock_info,       \* tracker.stock_info
    success,          \* first component of fetch_data()'s result
    msg,              \* second component of fetch_data()'s result
    sector,
    industry,
    mcap,
    days_public,
    is_mature,
    metrics,          \* result of tracker.get_metrics()
    deadlines,        \* result of tracker.get_mechanical_deadlines()
    cards,            \* deadline cards rendered so far: [event, date, today, status]
    inclusions,       \* the list built by the prediction branch
    page              \* what the bottom of the page shows

vars == << clock, ticks, pc, sector_override, provider, calls, current_year,
           hist_max, ipo_date, stock_info, success, msg, sector, industry,
           mcap, days_public, is_mature, metrics, deadlines, cards,
           inclusions, page >>

----------------------------------------------------------------------------
(* Bounds of the model *)

MaxTicks == 1        \* midnights that may pass during one run
MaxThrottle == 1     \* consecutive history calls the provider may throttle
MaxLen == 2          \* rows of the price history
MaxPrice == 1        \* closing prices are 0..MaxPrice

(* The retry policy of the specification (no retry exists in app.py) *)
MaxRetries == 2

----------------------------------------------------------------------------
(* datetime.date *)

DaysFromCivil(y, m, d) ==
    LET yy  == IF m <= 2 THEN y - 1 ELSE y
        era == yy \div 400
        yoe == yy - era * 400
        mp  == IF m > 2 THEN m - 3 ELSE m + 9
        doy == (153 * mp + 2) \div 5 + d - 1
        doe == yoe * 365 + yoe \div 4 - yoe \div 100 + doy
    IN  era * 146097 + doe - 719468

CivilFromDays(z) ==
    LET zz  == z + 719468
        era == zz \div 146097
        doe == zz - era * 146097
        yoe == (doe - doe \div 1460 + doe \div 36524 - doe \div 146096) \div 365
        doy == doe - (365 * yoe + yoe \div 4 - yoe \div 100)
        mp  == (5 * doy + 2) \div 153
        d   == doy - (153 * mp + 2) \div 5 + 1
        m   == IF mp < 10 THEN mp + 3 ELSE mp - 9
        y   == yoe + era * 400 + (IF m <= 2 THEN 1 ELSE 0)
    IN  [year |-> y, month |-> m, day |-> d]

Year(date) == CivilFromDays(date).year

Month(date) == CivilFromDays(date).month

----------------------------------------------------------------------------
(* Python values *)

None == << >>

Some(v) == << v >>

IsNone(x) == Len(x) = 0

\* truth value of an optional number: None and 0 are false
Truthy(x) == Len(x) > 0 /\ x[1] # 0

\* needle in hay, for strings as tuples of characters
Contains(needle, hay) ==
    \E i \in 1..(Len(hay) - Len(needle) + 1) :
        SubSeq(hay, i, i + Len(needle) - 1) = needle

\* dict.get(key, default) on a profile whose fields are None when absent
DictGet(d, key, default) == IF IsNone(d[key]) THEN default ELSE d[key][1]

EmptyInfo == [sector |-> None, industry |-> None, marketCap |-> None]

Unknown == << "U", "n", "k", "n", "o", "w", "n" >>

Biotech == << "B", "i", "o", "t", "e", "c", "h" >>

Pharmaceutical ==
    << "P", "h", "a", "r", "m", "a", "c", "e", "u", "t", "i", "c", "a", "l" >>

Biotechnology == Biotech \o << "n", "o", "l", "o", "g", "y" >>

PharmaRetailers == Pharmaceutical \o << " ", "R", "e", "t", "a", "i", "l", "e", "r", "s" >>

----------------------------------------------------------------------------
(* Program constants *)

QuietPeriodDays == 25

LockUpDays == 180

MatureDays == 365

\* 1e9 USD, in millions
Billion == 1000

\* observations below which a one-year return is flagged "(Since IPO)"
MinObservations == 250

----------------------------------------------------------------------------
(* Inputs of a run *)

IpoDates ==
    { DaysFromCivil(2023, 4, 30), DaysFromCivil(2025, 5, 1),
      DaysFromCivil(2025, 10, 31), DaysFromCivil(2025, 11, 1) }

\* days between the first trade and the start of the run
Deltas == { 0, 25, 180, 365, 366 }

\* price histories that start at ipo, one row per day, none after today
Series(ipo, today, closes) ==
    UNION { { [i \in 1..n |-> [date |-> ipo + i - 1, Close |-> c[i]]] :
                c \in [1..n -> closes] } :
            n \in { k \in 1..MaxLen : ipo + k - 1 <= today } }

Overrides == { "Auto-Detect", "Healthcare / Biotech", "Technology / Growth", "Other" }

SectorOpts == { None, Some("Healthcare"), Some("Technology") }

IndustryOpts == { None, Some(Biotechnology), Some(PharmaRetailers) }

CapOpts == { None, Some(0), Some(Billion - 1), Some(Billion) }

Profiles ==
    { [sector |-> s, industry |-> i, marketCap |-> m] :
        s \in SectorOpts, i \in IndustryOpts, m \in CapOpts }

\* what stock.info does: raises, or returns None or a dict
InfoOutcomes ==
    { [kind |-> "raise", value |-> None], [kind |-> "value", value |-> None] }
    \cup { [kind |-> "value", value |-> Some(d)] : d \in Profiles }

\* what stock.fast_info['marketCap'] does: raises, or returns None or a number
FastOutcomes ==
    { [kind |-> "raise", value |-> None], [kind |-> "value", value |-> None],
      [kind |-> "value", value |-> Some(Billion - 1)],
      [kind |-> "value", value |-> Some(Billion)] }

\* what stock.mutualfund_holders does: raises, or returns None or a table
FundOutcomes ==
    { [kind |-> "raise", rows |-> 0], [kind |-> "none", rows |-> 0],
      [kind |-> "table", rows |-> 0], [kind |-> "table", rows |-> 1] }

----------------------------------------------------------------------------
(* IPOCatalystTracker *)

Min(S) == CHOOSE x \in S : \A y \in S : x <= y

\* stock.history(period="max"): raises while the provider throttles, else
\* returns the (possibly empty) table
history(prov, made) ==
    IF made < prov.throttled
    THEN [raised |-> TRUE, rows |-> << >>]
    ELSE [raised |-> FALSE, rows |-> prov.rows]

\* self.stock_info = self.stock.info or {}, inside try/except
info_or_empty(info) ==
    IF info.kind = "raise" \/ IsNone(info.value) THEN EmptyInfo ELSE info.value[1]

\* fetch_data() without the inner try/except around stock.info
fetch_data_profile_fatal(hist, info) ==
    IF hist.raised \/ (Len(hist.rows) > 0 /\ info.kind = "raise")
    THEN [success |-> FALSE, msg |-> "Data fetch error", hist_max |-> hist.rows,
          ipo_date |-> None, stock_info |-> EmptyInfo]
    ELSE IF Len(hist.rows) = 0
    THEN [success |-> FALSE, msg |-> "No trading data found", hist_max |-> hist.rows,
          ipo_date |-> None, stock_info |-> EmptyInfo]
    ELSE [success |-> TRUE, msg |-> "Success", hist_max |-> hist.rows,
          ipo_date |-> Some(Min({ hist.rows[i].date : i \in 1..Len(hist.rows) })),
          stock_info |-> info_or_empty(info)]

\* fetch_data(), given what history() and info do
fetch_data(hist, info) ==
    IF hist.raised
    THEN [success |-> FALSE, msg |-> "Data fetch error", hist_max |-> << >>,
          ipo_date |-> None, stock_info |-> EmptyInfo]
    ELSE IF Len(hist.rows) = 0
    THEN [success |-> FALSE, msg |-> "No trading data found", hist_max |-> hist.rows,
          ipo_date |-> None, stock_info |-> EmptyInfo]
    ELSE [success |-> TRUE, msg |-> "Success", hist_max |-> hist.rows,
          ipo_date |-> Some(Min({ hist.rows[i].date : i \in 1..Len(hist.rows) })),
          stock_info |-> info_or_empty(info)]

\* numpy float64 arithmetic of ((current - base) / base) * 100, kept exact:
\* a finite value is the fraction num/den, a zero base gives inf or nan
Pct(current, base) ==
    IF base # 0
    THEN [kind |-> "finite", num |-> (current - base) * 100, den |-> base]
    ELSE IF current - base > 0 THEN [kind |-> "inf", num |-> 1, den |-> 0]
    ELSE IF current - base < 0 THEN [kind |-> "-inf", num |-> -1, den |-> 0]
    ELSE [kind |-> "nan", num |-> 0, den |-> 0]

Zero == [kind |-> "finite", num |-> 0, den |-> 1]

\* the return strings: "N/A", or the formatted value with an optional
\* " (Since IPO)" suffix
NA == [text |-> "N/A", value |-> Zero, since_ipo |-> FALSE]

Formatted(val, flag) == [text |-> "+.2f%", value |-> val, since_ipo |-> flag]

\* self.hist_max[self.hist_max.index.year == year]
RowsInYear(rows, year) ==
    LET F[i \in 0..Len(rows)] ==
            IF i = 0 THEN << >>
            ELSE IF Year(rows[i].date) = year THEN Append(F[i - 1], rows[i]) ELSE F[i - 1]
    IN  F[Len(rows)]

\* self.hist_max[self.hist_max.index <= limit]
RowsUpTo(rows, limit) ==
    LET F[i \in 0..Len(rows)] ==
            IF i = 0 THEN << >>
            ELSE IF rows[i].date <= limit THEN Append(F[i - 1], rows[i]) ELSE F[i - 1]
    IN  F[Len(rows)]

\* get_metrics(), with now the date read at line 102
get_metrics(hist, year, now) ==
    IF Len(hist) = 0
    THEN [current_price |-> 0, prev_close |-> 0, ytd_return |-> NA,
          one_yr_return |-> NA, ytd_val |-> Zero, one_yr_val |-> Zero]
    ELSE
    LET current_price == hist[Len(hist)].Close
        prev_close == IF Len(hist) > 1 THEN hist[Len(hist) - 1].Close ELSE current_price
        ytd_data == RowsInYear(hist, year)
        ytd_val == IF Len(ytd_data) > 0 THEN Pct(current_price, ytd_data[1].Close) ELSE Zero
        ytd_return == IF Len(ytd_data) > 0 THEN Formatted(ytd_val, FALSE) ELSE NA
        one_year_ago == now - 365
        past_data == RowsUpTo(hist, one_year_ago)
        one_yr_val == IF Len(past_data) > 0
                      THEN Pct(current_price, past_data[Len(past_data)].Close)
                      ELSE Pct(current_price, hist[1].Close)
        one_yr_return == IF Len(past_data) > 0
                         THEN Formatted(one_yr_val, ~(Len(hist) >= MinObservations))
                         ELSE Formatted(one_yr_val, TRUE)
    IN  [current_price |-> current_price, prev_close |-> prev_close,
         ytd_return |-> ytd_return, one_yr_return |-> one_yr_return,
         ytd_val |-> ytd_val, one_yr_val |-> one_yr_val]

\* get_mechanical_deadlines() with the lock-up listed before the quiet period
get_mechanical_deadlines_swapped(ipo) ==
    IF IsNone(ipo) THEN << >>
    ELSE << [event |-> "IPO Pricing / First Trade", date |-> ipo[1]],
            [event |-> "Lock-Up Expiry (T+180)", date |-> ipo[1] + LockUpDays],
            [event |-> "Quiet Period (T+25)", date |-> ipo[1] + QuietPeriodDays] >>

\* get_mechanical_deadlines(): a date is always true, only None gives {}
get_mechanical_deadlines(ipo) ==
    IF IsNone(ipo) THEN << >>
    ELSE << [event |-> "IPO Pricing / First Trade", date |-> ipo[1]],
            [event |-> "Quiet Period (T+25)", date |-> ipo[1] + QuietPeriodDays],
            [event |-> "Lock-Up Expiry (T+180)", date |-> ipo[1] + LockUpDays] >>

\* get_funds(): None when the provider raises
get_funds(funds) == IF funds.kind = "table" THEN Some(funds.rows) ELSE None

----------------------------------------------------------------------------
(* The page *)

\* lines 167-172: stock_info first, fast_info when that is missing or zero
market_cap(info, fast) ==
    LET primary == Some(DictGet(info, "marketCap", 0))
    IN  IF Truthy(primary) THEN primary
        ELSE IF fast.kind = "raise" THEN Some(0)
        ELSE fast.value

days_between(today, ipo) == today - ipo

\* is_mature with >= for >
mature_inclusive(days) == days >= MatureDays

mature(days) == days > MatureDays

\* passed with <= for <
deadline_status_inclusive(date, today) == IF date <= today THEN "Passed" ELSE "Upcoming"

\* passed with the comparison turned round
deadline_status_flipped(date, today) == IF today < date THEN "Passed" ELSE "Upcoming"

deadline_status(date, today) == IF date < today THEN "Passed" ELSE "Upcoming"

\* an inclusion row; Arg holds what an f-string target is formatted from
Entry(index, target, prob) ==
    [Index |-> index, Target |-> target, Prob |-> prob, Arg |-> << >>]

\* the Russell rule with a plain else for the elif
russell_rule_else(ipo_month) ==
    IF ipo_month <= 4 THEN << Entry("Russell 2000/3000", "Late June", "High") >>
    ELSE << Entry("Russell 2000/3000", "Dec 11", "High") >>

\* lines 251-252
russell_rule(ipo_month) ==
    IF ipo_month <= 4 THEN << Entry("Russell 2000/3000", "Late June", "High") >>
    ELSE IF ipo_month <= 10 THEN << Entry("Russell 2000/3000", "Dec 11", "High") >>
    ELSE << >>

\* line 254
crsp_rule == << Entry("CRSP US Total Market (VTI)", "Next Quarterly Rebalance", "High") >>

\* line 255, for a capitalization that is a number
msci_rule(cap) ==
    << Entry("MSCI USA IMI", "Next Index Review",
             IF cap >= Billion THEN "High" ELSE "Medium") >>

\* line 256: the target is "After <Mon YYYY>" of the first trade + 365 days
sp1500_rule(ipo) ==
    LET after == CivilFromDays(ipo + 365)
    IN  << [Entry("S&P Composite 1500", "After %b %Y", "Low")
                EXCEPT !.Arg = << after.month, after.year >>] >>

\* lines 259-268
classify(override, sec, ind) ==
    IF override = "Healthcare / Biotech" THEN [is_biotech |-> TRUE, is_tech |-> FALSE]
    ELSE IF override = "Technology / Growth" THEN [is_biotech |-> FALSE, is_tech |-> TRUE]
    ELSE IF override = "Auto-Detect"
    THEN [is_biotech |-> sec = "Healthcare" \/ Contains(Biotech, ind)
                         \/ Contains(Pharmaceutical, ind),
          is_tech |-> sec \in { "Technology", "Communication Services",
                                "Consumer Discretionary" }]
    ELSE [is_biotech |-> FALSE, is_tech |-> FALSE]

\* the sector rule with the growth row for is_tech only
sector_rule_tech_only(override, sec, ind) ==
    LET c == classify(override, sec, ind)
    IN  IF c.is_biotech
        THEN << Entry("S&P Biotech (XBI)", "Next Quarterly Rebalance", "High"),
                Entry("Nasdaq Biotech (NBI)", "December (Annual)", "High") >>
        ELSE IF c.is_tech
        THEN << Entry("Nasdaq 100 (QQQ)", "Standard or Fast Entry (15 Days)", "Varies") >>
        ELSE << >>

\* lines 270-274
sector_rule(override, sec, ind) ==
    LET c == classify(override, sec, ind)
    IN  IF c.is_biotech
        THEN << Entry("S&P Biotech (XBI)", "Next Quarterly Rebalance", "High"),
                Entry("Nasdaq Biotech (NBI)", "December (Annual)", "High") >>
        ELSE IF c.is_tech \/ (~c.is_biotech /\ override = "Auto-Detect")
        THEN << Entry("Nasdaq 100 (QQQ)", "Standard or Fast Entry (15 Days)", "Varies") >>
        ELSE << >>

----------------------------------------------------------------------------
(* One run of the script *)

NoMetrics == get_metrics(<< >>, 0, 0)

\* the state when the script reaches line 149 with a ticker entered
InitWith(overrides, throttles, closes) ==
    \E ipo \in IpoDates, delta \in Deltas, k \in throttles, o \in overrides :
      \E rows \in Series(ipo, ipo + delta, closes) \cup { << >> } :
        /\ clock = ipo + delta
        /\ ticks = 0
        /\ pc = "start"
        /\ sector_override = o
        /\ provider = [throttled |-> k, rows |-> rows]
        /\ calls = 0
        /\ current_year = 0
        /\ hist_max = << >>
        /\ ipo_date = None
        /\ stock_info = EmptyInfo
        /\ success = FALSE
        /\ msg = ""
        /\ sector = ""
        /\ industry = << >>
        /\ mcap = Some(0)
        /\ days_public = 0
        /\ is_mature = FALSE
        /\ metrics = NoMetrics
        /\ deadlines = << >>
        /\ cards = << >>
        /\ inclusions = << >>
        /\ page = ""

\* every override and provider behaviour, over histories of one flat price
Init == InitWith(Overrides, 0..MaxThrottle, { 1 })

\* every closing price, under auto-detect and an unthrottled provider
InitMetrics == InitWith({ "Auto-Detect" }, { 0 }, 0..MaxPrice)

\* midnight passes while the script runs
Tick ==
    /\ pc # "done"
    /\ ticks < MaxTicks
    /\ clock' = clock + 1
    /\ ticks' = ticks + 1
    /\ UNCHANGED << pc, sector_override, provider, calls, current_year, hist_max,
                    ipo_date, stock_info, success, msg, sector, industry, mcap,
                    days_public, is_mature, metrics, deadlines, cards, inclusions,
                    page >>

\* line 151: IPOCatalystTracker(ticker_input)
Construct ==
    /\ pc = "start"
    /\ current_year' = Year(clock)
    /\ hist_max' = << >>
    /\ ipo_date' = None
    /\ stock_info' = EmptyInfo
    /\ pc' = "fetch"
    /\ UNCHANGED << clock, ticks, sector_override, provider, calls, success, msg,
                    sector, industry, mcap, days_public, is_mature, metrics,
                    deadlines, cards, inclusions, page >>

\* line 152: success, msg = tracker.fetch_data()
FetchData ==
    /\ pc = "fetch"
    /\ \E info \in InfoOutcomes :
         LET r == fetch_data(history(provider, calls), info)
         IN  /\ success' = r.success
             /\ msg' = r.msg
             /\ hist_max' = r.hist_max
             /\ ipo_date' = r.ipo_date
             /\ stock_info' = r.stock_info
    /\ calls' = calls + 1
    /\ pc' = "fetched"
    /\ UNCHANGED << clock, ticks, sector_override, provider, current_year, sector,
                    industry, mcap, days_public, is_mature, metrics, deadlines,
                    cards, inclusions, page >>

\* lines 154-155: st.error(msg)
ShowError ==
    /\ pc = "fetched"
    /\ ~success
    /\ page' = "error"
    /\ pc' = "done"
    /\ UNCHANGED << clock, ticks, sector_override, provider, calls, current_year,
                    hist_max, ipo_date, stock_info, success, msg, sector, industry,
                    mcap, days_public, is_mature, metrics, deadlines, cards,
                    inclusions >>

\* lines 157-178: profile fields, capitalization, maturity
Profile ==
    /\ pc = "fetched"
    /\ success
    /\ sector' = DictGet(stock_info, "sector", "Unknown")
    /\ industry' = DictGet(stock_info, "industry", Unknown)
    /\ \E fast \in FastOutcomes : mcap' = market_cap(stock_info, fast)
    /\ days_public' = days_between(clock, ipo_date[1])
    /\ is_mature' = mature(days_public')
    /\ pc' = "metrics"
    /\ UNCHANGED << clock, ticks, sector_override, provider, calls, current_year,
                    hist_max, ipo_date, stock_info, success, msg, metrics,
                    deadlines, cards, inclusions, page >>

\* line 195: tracker.get_metrics()
Metrics ==
    /\ pc = "metrics"
    /\ metrics' = get_metrics(hist_max, current_year, clock)
    /\ pc' = "deadlines"
    /\ UNCHANGED << clock, ticks, sector_override, provider, calls, current_year,
                    hist_max, ipo_date, stock_info, success, msg, sector, industry,
                    mcap, days_public, is_mature, deadlines, cards, inclusions,
                    page >>

\* line 209: deadlines = tracker.get_mechanical_deadlines()
Deadlines ==
    /\ pc = "deadlines"
    /\ deadlines' = get_mechanical_deadlines(ipo_date)
    /\ cards' = << >>
    /\ pc' = IF Len(deadlines') = 0 THEN "bottom" ELSE "cards"
    /\ UNCHANGED << clock, ticks, sector_override, provider, calls, current_year,
                    hist_max, ipo_date, stock_info, success, msg, sector, industry,
                    mcap, days_public, is_mature, metrics, inclusions, page >>

\* lines 212-224: one iteration of the loop over deadlines.items()
DeadlineCard ==
    /\ pc = "cards"
    /\ LET d == deadlines[Len(cards) + 1]
       IN  cards' = Append(cards, [event |-> d.event, date |-> d.date, today |-> clock,
                                   status |-> deadline_status(d.date, clock)])
    /\ pc' = IF Len(cards') = Len(deadlines) THEN "bottom" ELSE "cards"
    /\ UNCHANGED << clock, ticks, sector_override, provider, calls, current_year,
                    hist_max, ipo_date, stock_info, success, msg, sector, industry,
                    mcap, days_public, is_mature, metrics, deadlines, inclusions,
                    page >>

\* lines 229-242: the fund-holder branch
FundHolders ==
    /\ pc = "bottom"
    /\ is_mature
    /\ \E f \in FundOutcomes :
         LET funds == get_funds(f)
         IN  page' = IF ~IsNone(funds) /\ funds[1] > 0 THEN "funds_table"
                     ELSE "funds_warning"
    /\ pc' = "done"
    /\ UNCHANGED << clock, ticks, sector_override, provider, calls, current_year,
                    hist_max, ipo_date, stock_info, success, msg, sector, industry,
                    mcap, days_public, is_mature, metrics, deadlines, cards,
                    inclusions >>

\* lines 243-277: the prediction branch; None >= 1e9 raises TypeError at
\* line 255 and the script stops there
Inclusions ==
    /\ pc = "bottom"
    /\ ~is_mature
    /\ LET head == russell_rule(Month(ipo_date[1])) \o crsp_rule
       IN  IF IsNone(mcap)
           THEN /\ inclusions' = head
                /\ page' = "TypeError"
           ELSE /\ inclusions' = head \o msci_rule(mcap[1]) \o sp1500_rule(ipo_date[1])
                                   \o sector_rule(sector_override, sector, industry)
                /\ page' = "inclusions_table"
    /\ pc' = "done"
    /\ UNCHANGED << clock, ticks, sector_override, provider, calls, current_year,
                    hist_max, ipo_date, stock_info, success, msg, sector, industry,
                    mcap, days_public, is_mature, metrics, deadlines, cards >>

Next ==
    \/ Tick
    \/ Construct
    \/ FetchData
    \/ ShowError
    \/ Profile
    \/ Metrics
    \/ Deadlines
    \/ DeadlineCard
    \/ FundHolders
    \/ Inclusions

Spec == Init /\ [][Next]_vars

SpecMetrics == InitMetrics /\ [][Next]_vars

----------------------------------------------------------------------------
(* Properties *)

Fetched == pc \notin { "start", "fetch" }

DeadlinesDerived == success /\ pc \in { "cards", "bottom", "done" }

ListRendered == pc = "done" /\ page = "inclusions_table"

ListBuilt == pc = "done" /\ page \in { "inclusions_table", "TypeError" }

Positions(list, names) == { i \in 1..Len(list) : list[i].Index \in names }

BiotechIndexes == { "S&P Biotech (XBI)", "Nasdaq Biotech (NBI)" }

GrowthIndexes == { "Nasdaq 100 (QQQ)" }

RussellIndexes == { "Russell 2000/3000" }

\* C1: once a first-trade date d is resolved, get_mechanical_deadlines() gives
\* exactly three deadlines, in the order pricing, quiet-period end, lock-up
\* expiry, dated d, d + 25 and d + 180.
C1_ThreeDeadlines ==
    DeadlinesDerived =>
        /\ ~IsNone(ipo_date)
        /\ Len(deadlines) = 3
        /\ deadlines[1] = [event |-> "IPO Pricing / First Trade", date |-> ipo_date[1]]
        /\ deadlines[2] = [event |-> "Quiet Period (T+25)", date |-> ipo_date[1] + 25]
        /\ deadlines[3] = [event |-> "Lock-Up Expiry (T+180)", date |-> ipo_date[1] + 180]

\* a first trade on 2025-10-31 has its lock-up expiry on 2026-04-29
C1_Witness ==
    /\ DeadlinesDerived
    /\ ipo_date = Some(DaysFromCivil(2025, 10, 31))
    /\ deadlines[2].date = DaysFromCivil(2025, 11, 25)
    /\ deadlines[3].date = DaysFromCivil(2026, 4, 29)

\* C2: every rendered deadline is Passed exactly when its date is strictly
\* earlier than the today read for it; a deadline dated today is Upcoming.
C2_PassedIffBeforeToday ==
    \A i \in 1..Len(cards) :
        /\ cards[i].status \in { "Passed", "Upcoming" }
        /\ cards[i].status = "Passed" <=> cards[i].date < cards[i].today
        /\ cards[i].date = cards[i].today => cards[i].status = "Upcoming"

\* the quiet period ends today and is Upcoming, the pricing is Passed
C2_Witness ==
    /\ Len(cards) >= 2
    /\ cards[1].status = "Passed"
    /\ cards[2].date = cards[2].today
    /\ cards[2].status = "Upcoming"

\* C3: the step that classifies maturity sets is_mature exactly when today
\* minus the first-trade date is strictly more than 365 days.
C3_MatureIffOver365 ==
    [][ (pc = "fetched" /\ pc' = "metrics") =>
            /\ days_public' = clock - ipo_date[1]
            /\ is_mature' <=> (clock - ipo_date[1] > 365) ]_vars

\* exactly 365 days public is classified not mature
C3_Witness ==
    /\ pc = "metrics"
    /\ days_public = 365
    /\ ~is_mature

\* C4: in the rendered prediction list, a security classified biotech
\* (override Healthcare / Biotech, or under Auto-Detect sector Healthcare or
\* industry containing Biotech or Pharmaceutical) ends with exactly the two
\* biotech rows and has no growth row; otherwise under Technology / Growth or
\* Auto-Detect the list ends with exactly one growth row, probability Varies,
\* and has no biotech row; under Other it has neither.
C4_SectorRule ==
    ListRendered =>
        LET n == Len(inclusions)
            bio == Positions(inclusions, BiotechIndexes)
            growth == Positions(inclusions, GrowthIndexes)
            biotech ==
                \/ sector_override = "Healthcare / Biotech"
                \/ /\ sector_override = "Auto-Detect"
                   /\ \/ sector = "Healthcare"
                      \/ Contains(Biotech, industry)
                      \/ Contains(Pharmaceutical, industry)
        IN  /\ biotech =>
                /\ bio = { n - 1, n }
                /\ inclusions[n - 1].Index = "S&P Biotech (XBI)"
                /\ inclusions[n].Index = "Nasdaq Biotech (NBI)"
                /\ growth = { }
            /\ (~biotech /\ sector_override \in { "Technology / Growth", "Auto-Detect" }) =>
                /\ growth = { n }
                /\ inclusions[n].Prob = "Varies"
                /\ bio = { }
            /\ sector_override = "Other" => (bio = { } /\ growth = { })
            /\ bio = { } \/ growth = { }

\* under Auto-Detect a security with no profile at all gets the growth row
C4_Witness ==
    /\ ListRendered
    /\ sector_override = "Auto-Detect"
    /\ sector = "Unknown"
    /\ industry = Unknown
    /\ inclusions[Len(inclusions)].Index = "Nasdaq 100 (QQQ)"

\* C5: the prediction list of a non-mature security has at most one Russell
\* row and only as its first row: Late June / High for first-trade months 1-4,
\* Dec 11 / High for months 5-10, none for months 11 and 12.
C5_RussellRule ==
    ListBuilt =>
        LET m == Month(ipo_date[1])
            russell == Positions(inclusions, RussellIndexes)
        IN  /\ russell \subseteq { 1 }
            /\ m \in 1..4 =>
                /\ russell = { 1 }
                /\ inclusions[1].Target = "Late June"
                /\ inclusions[1].Prob = "High"
            /\ m \in 5..10 =>
                /\ russell = { 1 }
                /\ inclusions[1].Target = "Dec 11"
                /\ inclusions[1].Prob = "High"
            /\ m \in 11..12 => russell = { }

\* a November first trade gets no Russell row
C5_Witness ==
    /\ ListRendered
    /\ ipo_date = Some(DaysFromCivil(2025, 11, 1))
    /\ inclusions[1].Index = "CRSP US Total Market (VTI)"

\* C6: every finished run for a non-mature security has the MSCI row, High
\* when the capitalization is at least 1e9 and Medium otherwise, the
\* capitalization being 0 when neither source supplied a number.
C6_MsciAlwaysPresent ==
    (pc = "done" /\ success /\ ~is_mature) =>
        LET cap == IF IsNone(mcap) THEN 0 ELSE mcap[1]
            msci == Positions(inclusions, { "MSCI USA IMI" })
        IN  /\ Cardinality(msci) = 1
            /\ \A i \in msci :
                 inclusions[i].Prob = IF cap >= 1000 THEN "High" ELSE "Medium"

\* C7: fetch_data() fails only on the price history: an empty history is the
\* no-data failure, a non-empty one succeeds with ipo_date the minimum date of
\* the history whatever stock.info did, the missing profile is replaced by
\* defaults, and a finished successful run has rendered three deadlines.
C7_OnlyHistoryFails ==
    LET rows == provider.rows
        dates == { rows[i].date : i \in 1..Len(rows) }
        throttled == provider.throttled > 0
    IN  /\ (Fetched /\ ~success) => (throttled \/ rows = << >>)
        /\ (Fetched /\ ~throttled /\ rows = << >>) =>
                (~success /\ msg = "No trading data found")
        /\ (Fetched /\ ~throttled /\ rows # << >>) =>
                /\ success
                /\ ~IsNone(ipo_date)
                /\ ipo_date[1] \in dates
                /\ \A d \in dates : ipo_date[1] <= d
        /\ (success /\ stock_info = EmptyInfo /\ pc \notin { "start", "fetch", "fetched" }) =>
                (sector = "Unknown" /\ industry = Unknown)
        /\ (pc = "done" /\ success) => (Len(deadlines) = 3 /\ Len(cards) = 3)

\* a run whose profile is empty finishes with defaults and three deadlines
C7_Witness ==
    /\ pc = "done"
    /\ success
    /\ stock_info = EmptyInfo
    /\ sector = "Unknown"
    /\ Len(cards) = 3

\* C8: a return that get_metrics() formats never has a base price of 0: with
\* a zero base the return is N/A.
C8_ZeroBaseIsNA ==
    pc \in { "deadlines", "cards", "bottom", "done" } =>
        /\ metrics.ytd_return.text = "N/A" \/ metrics.ytd_return.value.den # 0
        /\ metrics.one_yr_return.text = "N/A" \/ metrics.one_yr_return.value.den # 0

\* C9: a throttled price-history call is retried, up to MaxRetries times: a
\* provider that throttles no more calls than that and then answers with data
\* gives a successful resolution, and the fetch error is surfaced only after
\* 1 + MaxRetries calls.
C9_ThrottleIsRetried ==
    Fetched =>
        /\ (provider.throttled <= MaxRetries /\ provider.rows # << >>) => success
        /\ msg = "Data fetch error" => calls = 1 + MaxRetries

\* C10: a security classified mature has only Passed deadlines, and a run
\* with an Upcoming deadline is non-mature and ends in the prediction branch.
C10_MatureMeansAllPassed ==
    /\ (is_mature /\ pc = "done") => Len(cards) = 3
    /\ is_mature => \A i \in 1..Len(cards) : cards[i].status = "Passed"
    /\ (\E i \in 1..Len(cards) : cards[i].status = "Upcoming") =>
            /\ ~is_mature
            /\ page \notin { "funds_table", "funds_warning" }
            /\ pc = "done" => page \in { "inclusions_table", "TypeError" }

\* a mature security ends in the fund-holder branch with three Passed deadlines
C10_Witness ==
    /\ pc = "done"
    /\ is_mature
    /\ page \in { "funds_table", "funds_warning" }
    /\ \A i \in 1..3 : cards[i].status = "Passed"

====
